---- MODULE Spec2Model ----
(***************************************************************************)
(* The clinical record store of src/Dentaleditapp.py as a state machine.   *)
(* The state is the content of the SQLite tables and of the upload folder; *)
(* every action is one HTTP request handler, run to its response.  A       *)
(* request carries its own session cookie, so the session role is an input *)
(* of every request.  `last` records the request that ran last: its        *)
(* inputs, its outcome and what it rendered.                               *)
(*                                                                         *)
(* Abstractions: money is an integer (the code uses floats); a date is a   *)
(* day number; a case identifier string is a 4-tuple (see GenId); only the *)
(* columns that some handler reads back are kept on a row.                 *)
(* Treatment.parent_treatment_id is written by no handler, so every        *)
(* Treatment.sub_treatments collection is empty and the column is omitted. *)
(***************************************************************************)
EXTENDS Integers, Sequences, FiniteSets, TLC

\* ------------------------------------------------------------------ values
Null == 0
Roles == {"doctor", "assistant", "patient", "none"}
Staff == {"doctor", "assistant"}

\* A case identifier string.  <<0, p, d, n>> is the text "CASE-<p>-<d>-<nn>";
\* <<1, k, 0, 0>> is a free text that does not start with "CASE-";
\* <<2, k, 0, 0>> is the decimal text of the integer k.
GenId(pid, day, n) == <<0, pid, day, n>>
FreeText(k) == <<1, k, 0, 0>>
NumText(k) == <<2, k, 0, 0>>
NoText == <<9, 0, 0, 0>>

\* next_appointment as submitted: None, the empty string, or a date.
NoneAppt == -1
EmptyAppt == 0
ALLOWED_EXTENSIONS == {"png", "jpg", "jpeg", "pdf"}

\* requests: the add_treatment requests that are being served step by step.
VARIABLES today, patients, users, dentists, cases, visits, rxs, items,
          treatments, followups, payments, radiographs, files, nfiles, last,
          requests

store == <<patients, users, dentists, cases, visits, rxs, items,
           treatments, followups, payments, radiographs, files, nfiles>>
vars == <<today, patients, users, dentists, cases, visits, rxs, items,
          treatments, followups, payments, radiographs, files, nfiles, last,
          requests>>

\* ------------------------------------------------------------------ helpers
Ids(rows) == {r.id : r \in rows}

MaxOf(S) == CHOOSE m \in S : \A x \in S : x <= m

\* SQLite INTEGER PRIMARY KEY without AUTOINCREMENT: the next rowid is one
\* more than the largest rowid in the table.
NextId(rows) == IF rows = {} THEN 1 ELSE MaxOf(Ids(rows)) + 1

Row(rows, id) == CHOOSE r \in rows : r.id = id

\* sum(t.amount or 0 for t in rows)
RECURSIVE SumAmount(_)
SumAmount(rows) ==
    IF rows = {} THEN 0
    ELSE LET r == CHOOSE x \in rows : TRUE IN r.amount + SumAmount(rows \ {r})

\* sum(p.amount_paid or 0 for p in rows)
RECURSIVE SumPaid(_)
SumPaid(rows) ==
    IF rows = {} THEN 0
    ELSE LET r == CHOOSE x \in rows : TRUE IN r.amount_paid + SumPaid(rows \ {r})

allowed_file(ext) == ext \in ALLOWED_EXTENSIONS

require_role(role, roles) == role \in roles

\* Case.case_id LIKE 'CASE-<pid>-<today>%'
LikePrefix(text, pid, day) == text[1] = 0 /\ text[2] = pid /\ text[3] = day

\* Treatment.case_id is an INTEGER column that receives the case identifier
\* text: SQLite keeps it as text unless it reads as an integer, so it equals
\* a Case primary key only for a decimal text.
FkMatches(text, id) == text = NumText(id)

Aborted(op, role, why) == [op |-> op, ok |-> FALSE, role |-> role, err |-> why]

\* ------------------------------------------------------------------ Init
\* The tables and the upload folder after db.create_all() on a new database.
EmptyStore ==
    /\ today = 1
    /\ patients = {}
    /\ users = {}
    /\ dentists = {}
    /\ cases = {}
    /\ visits = {}
    /\ rxs = {}
    /\ items = {}
    /\ treatments = {}
    /\ followups = {}
    /\ payments = {}
    /\ radiographs = {}
    /\ files = {}
    /\ nfiles = 0
    /\ requests = {}

Init ==
    /\ EmptyStore
    /\ last = [op |-> "init", ok |-> TRUE, role |-> "none"]

\* The calendar day changes between requests.
NextDay(D) ==
    /\ today < D.days
    /\ today' = today + 1
    /\ last' = [op |-> "midnight", ok |-> TRUE, role |-> "none"]
    /\ UNCHANGED <<requests, store>>

\* ------------------------------------------------------------------ creation
patient_registration(role, D) ==
    IF ~require_role(role, Staff)
    THEN /\ last' = Aborted("patient_registration", role, "role")
         /\ UNCHANGED <<today, requests, store>>
    ELSE LET id == NextId(patients)
             file_no == 10000 + id
         IN /\ id <= D.patients
            /\ patients' = patients \cup {[id |-> id, file_no |-> file_no]}
            /\ users' = users \cup {[username |-> file_no, role |-> "patient"]}
            /\ last' = [op |-> "patient_registration", ok |-> TRUE, role |-> role,
                        pid |-> id]
            /\ UNCHANGED <<today, requests, dentists, cases, visits, rxs, items, treatments,
                           followups, payments, radiographs, files, nfiles>>

register_dentist(role, D) ==
    LET id == NextId(dentists)
    IN /\ id <= D.dentists
       /\ dentists' = dentists \cup {[id |-> id]}
       /\ last' = [op |-> "register_dentist", ok |-> TRUE, role |-> role, did |-> id]
       /\ UNCHANGED <<today, requests, patients, users, cases, visits, rxs, items, treatments,
                      followups, payments, radiographs, files, nfiles>>

\* An upload is "" (no file part) or the extension of the submitted file.
add_visit(role, pid, D) ==
    IF ~require_role(role, Staff)
    THEN /\ last' = Aborted("add_visit", role, "role")
         /\ UNCHANGED <<today, requests, store>>
    ELSE IF pid \notin Ids(patients)
    THEN /\ last' = Aborted("add_visit", role, "404")
         /\ UNCHANGED <<today, requests, store>>
    ELSE \E did \in D.did, upload \in D.upload :
         LET id == NextId(visits)
             saved == upload # "" /\ allowed_file(upload)
             name == nfiles + 1
         IN /\ id <= D.visits
            /\ saved => name <= D.files
            /\ visits' = visits \cup
                   {[id |-> id, patient_id |-> pid, doctor_id |-> did,
                     attachment |-> IF saved THEN name ELSE Null]}
            /\ files' = IF saved THEN files \cup {[name |-> name, ext |-> upload]}
                        ELSE files
            /\ nfiles' = IF saved THEN name ELSE nfiles
            /\ last' = [op |-> "add_visit", ok |-> TRUE, role |-> role, pid |-> pid,
                        vid |-> id, did |-> did, upload |-> upload]
            /\ UNCHANGED <<today, requests, patients, users, dentists, cases, rxs, items,
                           treatments, followups, payments, radiographs>>

\* The POST builds the Case and then calls case.generate_case_no(), a method
\* the Case class does not have (it defines generate_case_id): the request
\* ends in AttributeError before anything is added to the session.
add_case(role, pid) ==
    LET req == [op |-> "add_case", role |-> role, pid |-> pid]
    IN /\ last' = IF ~require_role(role, Staff) THEN [ok |-> FALSE, err |-> "role"] @@ req
                  ELSE IF pid \notin Ids(patients)
                  THEN [ok |-> FALSE, err |-> "404"] @@ req
                  ELSE [ok |-> FALSE, err |-> "AttributeError"] @@ req
       /\ UNCHANGED <<today, requests, store>>

\* An identifier that ignores the cases already stored.
FirstCaseId(pid) == GenId(pid, today, 1)

\* count of today's cases of the patient, plus one, as the next identifier
NextCaseId(pid) ==
    LET count == Cardinality({c \in cases : /\ LikePrefix(c.case_id, pid, today)
                                            /\ c.patient_id = pid})
    IN GenId(pid, today, count + 1)

\* The selected case taking priority over the manual entry.
ResolveSelectedFirst(pid, manual, selected) ==
    IF selected # NoText THEN selected
    ELSE IF manual # NoText THEN manual
    ELSE NextCaseId(pid)

\* manual entry, else the selected case, else a generated identifier
ResolveCaseId(pid, manual, selected) ==
    IF manual # NoText THEN manual
    ELSE IF selected # NoText THEN selected
    ELSE NextCaseId(pid)

\* The column without its unique constraint.
NoUniqueViolation(text) == FALSE

\* cases.case_id is declared unique=True
UniqueViolation(text) == \E c \in cases : c.case_id = text

\* The visit looked up without comparing its patient.
VisitExists(vid, pid) == \E v \in visits : v.id = vid

\* "if not visit or visit.patient_id != patient.id"
ValidVisit(vid, pid) == \E v \in visits : v.id = vid /\ v.patient_id = pid

\* The column default in place of the computed status.
InitialStatusDefault(appt) == "Ongoing"

\* status="Completed" if not next_appt else "Ongoing"
InitialStatus(appt) ==
    IF appt = NoneAppt \/ appt = EmptyAppt THEN "Completed" ELSE "Ongoing"

\* vid: the submitted visit id (Null: none, or not a number).  The form
\* fields are read once the visit has been validated.
add_treatment(role, pid, vid, D) ==
    LET req == [op |-> "add_treatment", role |-> role, pid |-> pid, vid |-> vid]
    IN
    IF ~require_role(role, Staff)
    THEN /\ last' = [ok |-> FALSE, err |-> "role"] @@ req
         /\ UNCHANGED <<today, requests, store>>
    ELSE IF pid \notin Ids(patients)
    THEN /\ last' = [ok |-> FALSE, err |-> "404"] @@ req
         /\ UNCHANGED <<today, requests, store>>
    ELSE IF ~ValidVisit(vid, pid)
    THEN /\ last' = [ok |-> FALSE, err |-> "visit"] @@ req
         /\ UNCHANGED <<today, requests, store>>
    ELSE
    \E manual \in D.manual, selected \in {NoText} \cup {c.case_id : c \in cases},
       did \in D.did, fee \in D.fee, paid \in D.paid, appt \in D.appt,
       upload \in D.upload :
    LET inp == [manual |-> manual, selected |-> selected, did |-> did] @@ req
        fail(why) == [ok |-> FALSE, err |-> why] @@ inp
        case_id == ResolveCaseId(pid, manual, selected)
        existing_case == \E c \in cases : c.case_id = case_id /\ c.patient_id = pid
        new_case == [id |-> NextId(cases), case_id |-> case_id, patient_id |-> pid,
                     status |-> "Active"]
        cases1 == IF existing_case THEN cases ELSE cases \cup {new_case}
    IN
    IF ~existing_case /\ UniqueViolation(case_id)
    THEN /\ last' = fail("IntegrityError") /\ UNCHANGED <<today, requests, store>>
    ELSE IF did # Null /\ did \notin Ids(dentists)
    THEN \* db.session.get(Dentist, id) is None: AttributeError, after the
         \* new Case has been committed
         /\ ~existing_case => new_case.id <= D.cases
         /\ cases' = cases1
         /\ last' = fail("AttributeError")
         /\ UNCHANGED <<today, requests, patients, users, dentists, visits, rxs, items,
                        treatments, followups, payments, radiographs, files, nfiles>>
    ELSE
    LET tid == NextId(treatments)
        treatment == [id |-> tid, patient_id |-> pid, case_id |-> case_id,
                      visit_id |-> vid, dentist_id |-> did, amount |-> fee,
                      next_appointment |-> appt, status |-> InitialStatus(appt)]
        treatments1 == treatments \cup {treatment}
        prev_paid == SumPaid({p \in payments : p.patient_id = pid})
        prev_fee == SumAmount({t \in treatments1 : t.patient_id = pid})
        payment == [id |-> NextId(payments), patient_id |-> pid, treatment_id |-> tid,
                    case_id |-> case_id, treatment_fee |-> fee, amount_paid |-> paid,
                    remaining_balance |-> prev_fee - prev_paid]
        saved == upload # "" /\ allowed_file(upload)
        name == nfiles + 1
        rid == NextId(radiographs)
    IN /\ ~existing_case => new_case.id <= D.cases
       /\ tid <= D.treatments
       /\ payment.id <= D.payments
       /\ saved => name <= D.files
       /\ cases' = cases1
       /\ treatments' = treatments1
       /\ payments' = payments \cup {payment}
       /\ radiographs' = IF saved
                         THEN radiographs \cup
                              {[id |-> rid, patient_id |-> pid, treatment_id |-> tid,
                                case_id |-> case_id, filename |-> name]}
                         ELSE radiographs
       /\ files' = IF saved THEN files \cup {[name |-> name, ext |-> upload]} ELSE files
       /\ nfiles' = IF saved THEN name ELSE nfiles
       /\ last' = [ok |-> TRUE, case_id |-> case_id, tid |-> tid,
                   created |-> ~existing_case, appt |-> appt, fee |-> fee,
                   paid |-> paid] @@ inp
       /\ UNCHANGED <<today, requests, patients, users, dentists, visits, rxs, items, followups>>

\* ---- add_treatment served by concurrent threads (app.run is threaded): the
\* statements of one request, with no case id submitted and no dentist, as
\* steps that another request's steps can fall between.
Request(r) == CHOOSE q \in requests : q.r = r

\* Role check, patient and visit lookups, then the count of today's cases and
\* the generated identifier.  after: the requests that had finished by then.
count_cases(r, pid, vid) ==
    /\ r \notin {q.r : q \in requests}
    /\ pid \in Ids(patients)
    /\ ValidVisit(vid, pid)
    /\ requests' = requests \cup
           {[r |-> r, pc |-> "counted", pid |-> pid, vid |-> vid, day |-> today,
             case_id |-> NextCaseId(pid), existing |-> FALSE,
             after |-> {q.r : q \in {x \in requests : x.pc \in {"done", "failed"}}}]}
    /\ last' = [op |-> "count_cases", ok |-> TRUE, role |-> "doctor", r |-> r]
    /\ UNCHANGED <<today, store>>

\* existing_case = Case.query.filter_by(case_id=..., patient_id=...).first()
find_case(r) ==
    /\ \E q \in requests : q.r = r /\ q.pc = "counted"
    /\ LET q == Request(r)
           found == \E c \in cases : c.case_id = q.case_id /\ c.patient_id = q.pid
       IN requests' = (requests \ {q}) \cup
                      {[q EXCEPT !.pc = "looked_up", !.existing = found]}
    /\ last' = [op |-> "find_case", ok |-> TRUE, role |-> "doctor", r |-> r]
    /\ UNCHANGED <<today, store>>

\* if not existing_case: add the Case and commit
commit_case(r) ==
    /\ \E q \in requests : q.r = r /\ q.pc = "looked_up"
    /\ LET q == Request(r)
           new_case == [id |-> NextId(cases), case_id |-> q.case_id,
                        patient_id |-> q.pid, status |-> "Active"]
           refused == ~q.existing /\ UniqueViolation(q.case_id)
       IN /\ cases' = IF q.existing \/ refused THEN cases ELSE cases \cup {new_case}
          /\ requests' = (requests \ {q}) \cup
                 {[q EXCEPT !.pc = IF refused THEN "failed" ELSE "case_ready"]}
          /\ last' = [op |-> "commit_case", ok |-> ~refused, role |-> "doctor",
                      r |-> r]
    /\ UNCHANGED <<today, patients, users, dentists, visits, rxs, items, treatments,
                   followups, payments, radiographs, files, nfiles>>

\* The Treatment and its Payment, with the form's fee and amount.
commit_treatment(r, D) ==
    /\ \E q \in requests : q.r = r /\ q.pc = "case_ready"
    /\ \E fee \in D.fee, paid \in D.paid, appt \in D.appt :
       LET q == Request(r)
           tid == NextId(treatments)
           treatment == [id |-> tid, patient_id |-> q.pid, case_id |-> q.case_id,
                         visit_id |-> q.vid, dentist_id |-> Null, amount |-> fee,
                         next_appointment |-> appt, status |-> InitialStatus(appt)]
           treatments1 == treatments \cup {treatment}
           prev_paid == SumPaid({p \in payments : p.patient_id = q.pid})
           prev_fee == SumAmount({t \in treatments1 : t.patient_id = q.pid})
           payment == [id |-> NextId(payments), patient_id |-> q.pid,
                       treatment_id |-> tid, case_id |-> q.case_id,
                       treatment_fee |-> fee, amount_paid |-> paid,
                       remaining_balance |-> prev_fee - prev_paid]
       IN /\ tid <= D.treatments
          /\ payment.id <= D.payments
          /\ treatments' = treatments1
          /\ payments' = payments \cup {payment}
          /\ requests' = (requests \ {q}) \cup {[q EXCEPT !.pc = "done"]}
          /\ last' = [op |-> "commit_treatment", ok |-> TRUE, role |-> "doctor",
                      r |-> r, tid |-> tid]
    /\ UNCHANGED <<today, patients, users, dentists, cases, visits, rxs, items,
                   followups, radiographs, files, nfiles>>

\* The date propagated whatever the FollowUp's status.
PropagateAnyStatus(treatment, status, appt, flag) ==
    IF flag
    THEN [treatment EXCEPT !.status = "Completed", !.next_appointment = NoneAppt]
    ELSE IF appt # NoneAppt /\ appt # EmptyAppt
    THEN [treatment EXCEPT !.next_appointment = appt]
    ELSE treatment

\* The Treatment completed with its next appointment left in place.
PropagateKeepDate(treatment, status, appt, flag) ==
    IF flag
    THEN [treatment EXCEPT !.status = "Completed"]
    ELSE IF status = "Ongoing" /\ appt # NoneAppt /\ appt # EmptyAppt
    THEN [treatment EXCEPT !.next_appointment = appt]
    ELSE treatment

\* The parent Treatment after the FollowUp has been added:
\*   if mark_treatment_complete == "1": Completed, next_appointment None
\*   elif followup.status == "Ongoing" and next_appt: next_appointment = next_appt
Propagate(treatment, status, appt, flag) ==
    IF flag
    THEN [treatment EXCEPT !.status = "Completed", !.next_appointment = NoneAppt]
    ELSE IF status = "Ongoing" /\ appt # NoneAppt /\ appt # EmptyAppt
    THEN [treatment EXCEPT !.next_appointment = appt]
    ELSE treatment

\* The handler checks no role.  notes: whether the notes field is non-empty.
\* The attachment is stored under its own name, whatever its extension.
add_followup(role, tid, D) ==
    LET req == [op |-> "add_followup", role |-> role, tid |-> tid]
    IN
    IF tid \notin Ids(treatments)
    THEN /\ last' = [ok |-> FALSE, err |-> "404"] @@ req
         /\ UNCHANGED <<today, requests, store>>
    ELSE
    \E notes \in D.notes, status \in D.fstatus, appt \in D.fappt,
       flag \in D.flag, upload \in D.fupload :
    LET inp == [status |-> status, appt |-> appt, flag |-> flag, upload |-> upload]
               @@ req
    IN
    IF ~notes
    THEN /\ last' = [ok |-> FALSE, err |-> "notes"] @@ inp
         /\ UNCHANGED <<today, requests, store>>
    ELSE
    LET treatment == Row(treatments, tid)
        id == NextId(followups)
        followup == [id |-> id, treatment_id |-> tid, status |-> status,
                     next_appointment |-> IF status = "Ongoing" THEN appt ELSE NoneAppt,
                     attachment |-> upload]
        updated == Propagate(treatment, status, appt, flag)
    IN /\ id <= D.followups
       /\ followups' = followups \cup {followup}
       /\ treatments' = (treatments \ {treatment}) \cup {updated}
       /\ files' = IF upload # "" THEN files \cup {[name |-> 0, ext |-> upload]}
                   ELSE files
       /\ last' = [ok |-> TRUE, fid |-> id] @@ inp
       /\ UNCHANGED <<today, requests, patients, users, dentists, cases, visits, rxs, items,
                      payments, radiographs, nfiles>>

\* A completed object reopened by a second click.
MarkToggled(rows, obj_id) ==
    {IF r.id = obj_id
     THEN [r EXCEPT !.status = IF r.status = "Completed" THEN "Active" ELSE "Completed"]
     ELSE r : r \in rows}

\* o.status = 'Completed'
MarkCompleted(rows, obj_id) ==
    {IF r.id = obj_id THEN [r EXCEPT !.status = "Completed"] ELSE r : r \in rows}

mark_complete(role, obj_type, obj_id) ==
    LET inp == [op |-> "mark_complete", role |-> role, obj_type |-> obj_type,
                obj_id |-> obj_id]
        table == IF obj_type = "case" THEN cases
                 ELSE IF obj_type = "treatment" THEN treatments
                 ELSE followups
        done(rows) == MarkCompleted(rows, obj_id)
    IN
    IF ~require_role(role, Staff)
    THEN /\ last' = [ok |-> FALSE, err |-> "role"] @@ inp
         /\ UNCHANGED <<today, requests, store>>
    ELSE IF obj_type \notin {"case", "treatment", "followup"}
    THEN /\ last' = [ok |-> FALSE, err |-> "type"] @@ inp
         /\ UNCHANGED <<today, requests, store>>
    ELSE IF obj_id \notin Ids(table)
    THEN /\ last' = [ok |-> FALSE, err |-> "404"] @@ inp
         /\ UNCHANGED <<today, requests, store>>
    ELSE /\ cases' = IF obj_type = "case" THEN done(cases) ELSE cases
         /\ treatments' = IF obj_type = "treatment" THEN done(treatments) ELSE treatments
         /\ followups' = IF obj_type = "followup" THEN done(followups) ELSE followups
         /\ last' = [ok |-> TRUE] @@ inp
         /\ UNCHANGED <<today, requests, patients, users, dentists, visits, rxs, items,
                        payments, radiographs, files, nfiles>>

\* uploads: the extensions of the submitted files, in order.
RECURSIVE SaveAll(_, _, _, _, _)
SaveAll(uploads, pid, rads, fs, n) ==
    IF uploads = <<>> THEN [radiographs |-> rads, files |-> fs, nfiles |-> n]
    ELSE IF allowed_file(Head(uploads))
    THEN SaveAll(Tail(uploads), pid,
                 rads \cup {[id |-> NextId(rads), patient_id |-> pid,
                             treatment_id |-> Null, case_id |-> NoText,
                             filename |-> n + 1]},
                 fs \cup {[name |-> n + 1, ext |-> Head(uploads)]},
                 n + 1)
    ELSE SaveAll(Tail(uploads), pid, rads, fs, n)

upload_file(role, pid, D) ==
    LET req == [op |-> "upload_file", role |-> role, pid |-> pid]
    IN
    IF ~require_role(role, Staff)
    THEN /\ last' = [ok |-> FALSE, err |-> "role"] @@ req
         /\ UNCHANGED <<today, requests, store>>
    ELSE IF pid \notin Ids(patients)
    THEN /\ last' = [ok |-> FALSE, err |-> "404"] @@ req
         /\ UNCHANGED <<today, requests, store>>
    ELSE
    \E uploads \in D.uploads :
    LET inp == [uploads |-> uploads] @@ req
        res == SaveAll(uploads, pid, radiographs, files, nfiles)
    IN
    IF uploads = <<>>
    THEN /\ last' = [ok |-> FALSE, err |-> "No files selected"] @@ inp
         /\ UNCHANGED <<today, requests, store>>
    ELSE /\ res.nfiles <= D.files
         /\ radiographs' = res.radiographs
         /\ nfiles' = res.nfiles
         /\ files' = res.files
         /\ last' = [ok |-> TRUE] @@ inp
         /\ UNCHANGED <<today, requests, patients, users, dentists, cases, visits, rxs, items,
                        treatments, followups, payments>>

\* names: the submitted drug_name[] list, "" for an empty field.
RECURSIVE AddItems(_, _, _)
AddItems(names, rxid, rows) ==
    IF names = <<>> THEN rows
    ELSE IF Head(names) # ""
    THEN AddItems(Tail(names), rxid,
                  rows \cup {[id |-> NextId(rows), prescription_id |-> rxid,
                              drug_name |-> Head(names)]})
    ELSE AddItems(Tail(names), rxid, rows)

\* The stored items kept, so that a save merges into them.
KeepItems(rxid) == items

\* PrescriptionItem.query.filter_by(prescription_id=prescription.id).delete()
ClearItems(rxid) == {i \in items : i.prescription_id # rxid}

visit_prescription(role, vid, D) ==
    LET req == [op |-> "visit_prescription", role |-> role, vid |-> vid]
    IN
    IF ~require_role(role, Staff)
    THEN /\ last' = [ok |-> FALSE, err |-> "role"] @@ req
         /\ UNCHANGED <<today, requests, store>>
    ELSE IF vid \notin Ids(visits)
    THEN \* db.session.get returns None and visit.patient raises
         /\ last' = [ok |-> FALSE, err |-> "AttributeError"] @@ req
         /\ UNCHANGED <<today, requests, store>>
    ELSE
    \E names \in D.names :
    LET inp == [names |-> names] @@ req
        has == \E r \in rxs : r.visit_id = vid
        rxid == IF has THEN (CHOOSE r \in rxs : r.visit_id = vid).id ELSE NextId(rxs)
        cleared == ClearItems(rxid)
    IN
       /\ ~has => Cardinality(rxs) < D.rxs
       /\ rxs' = IF has THEN rxs ELSE rxs \cup {[id |-> rxid, visit_id |-> vid]}
       /\ items' = AddItems(names, rxid, cleared)
       /\ \A i \in items' : i.id <= D.items
       /\ last' = [ok |-> TRUE, rxid |-> rxid,
                   replaced |-> [k \in 1..Cardinality(items \ cleared) |->
                                   (CHOOSE i \in items \ cleared :
                                      Cardinality({j \in items \ cleared : j.id <= i.id}) = k
                                   ).drug_name]] @@ inp
       /\ UNCHANGED <<today, requests, patients, users, dentists, cases, visits, treatments,
                      followups, payments, radiographs, files, nfiles>>

\* ------------------------------------------------------------------ deletion
\* What the ORM does to the rows that point at Treatments deleted through
\* db.session.delete: FollowUps go with them (cascade="all, delete-orphan");
\* Payment.treatment and Treatment.related_files carry no delete cascade, so
\* the unit of work sets treatment_id to NULL on those rows and keeps them.
Detach(rows, tids) ==
    {IF r.treatment_id \in tids THEN [r EXCEPT !.treatment_id = Null] ELSE r
     : r \in rows}

\* The FollowUps left where the cascade had been.
KeepFollowUps(tids) == followups

WithoutFollowUps(tids) == {f \in followups : f.treatment_id \notin tids}

\* No file found on disk, so none removed.
NoneOnDisk(rads) == {}

\* The files on disk behind a set of Radiograph rows (os.path.exists).
OnDisk(rads) == {f \in files : \E r \in rads : f.name = r.filename}

delete_treatment(role, tid) ==
    LET inp == [op |-> "delete_treatment", role |-> role, tid |-> tid]
    IN
    IF ~require_role(role, Staff)
    THEN /\ last' = [ok |-> FALSE, err |-> "role"] @@ inp
         /\ UNCHANGED <<today, requests, store>>
    ELSE IF tid \notin Ids(treatments)
    THEN /\ last' = [ok |-> FALSE, err |-> "404"] @@ inp
         /\ UNCHANGED <<today, requests, store>>
    ELSE /\ treatments' = {t \in treatments : t.id # tid}
         /\ followups' = WithoutFollowUps({tid})
         /\ payments' = Detach(payments, {tid})
         /\ radiographs' = Detach(radiographs, {tid})
         /\ last' = [ok |-> TRUE,
                     had |-> [followups |-> {f.id : f \in followups \ followups'},
                              payments |-> {x.id : x \in {y \in payments :
                                                            y.treatment_id = tid}},
                              radiographs |-> {x.id : x \in {y \in radiographs :
                                                               y.treatment_id = tid}}]]
                    @@ inp
         /\ UNCHANGED <<today, requests, patients, users, dentists, cases, visits, rxs, items,
                        files, nfiles>>

delete_followup(role, fid) ==
    LET inp == [op |-> "delete_followup", role |-> role, fid |-> fid]
    IN
    IF ~require_role(role, Staff)
    THEN /\ last' = [ok |-> FALSE, err |-> "role"] @@ inp
         /\ UNCHANGED <<today, requests, store>>
    ELSE IF fid \notin Ids(followups)
    THEN /\ last' = [ok |-> FALSE, err |-> "404"] @@ inp
         /\ UNCHANGED <<today, requests, store>>
    ELSE /\ followups' = {f \in followups : f.id # fid}
         /\ last' = [ok |-> TRUE] @@ inp
         /\ UNCHANGED <<today, requests, patients, users, dentists, cases, visits, rxs, items,
                        treatments, payments, radiographs, files, nfiles>>

delete_payment(role, payid) ==
    LET inp == [op |-> "delete_payment", role |-> role, payid |-> payid]
    IN
    IF ~require_role(role, Staff)
    THEN /\ last' = [ok |-> FALSE, err |-> "role"] @@ inp
         /\ UNCHANGED <<today, requests, store>>
    ELSE IF payid \notin Ids(payments)
    THEN /\ last' = [ok |-> FALSE, err |-> "404"] @@ inp
         /\ UNCHANGED <<today, requests, store>>
    ELSE /\ payments' = {x \in payments : x.id # payid}
         /\ last' = [ok |-> TRUE] @@ inp
         /\ UNCHANGED <<today, requests, patients, users, dentists, cases, visits, rxs, items,
                        treatments, followups, radiographs, files, nfiles>>

\* Case.treatments (cascade="all, delete-orphan") joins treatments.case_id to
\* cases.id, the integer primary key.
TreatmentsOfCases(cs) == {t \in treatments : \E c \in cs : FkMatches(t.case_id, c.id)}

delete_case(role, cid) ==
    LET inp == [op |-> "delete_case", role |-> role, cid |-> cid]
    IN
    IF ~require_role(role, Staff)
    THEN /\ last' = [ok |-> FALSE, err |-> "role"] @@ inp
         /\ UNCHANGED <<today, requests, store>>
    ELSE IF cid \notin Ids(cases)
    THEN /\ last' = [ok |-> FALSE, err |-> "404"] @@ inp
         /\ UNCHANGED <<today, requests, store>>
    ELSE LET gone == TreatmentsOfCases({Row(cases, cid)})
             tids == Ids(gone)
         IN /\ cases' = {c \in cases : c.id # cid}
            /\ treatments' = treatments \ gone
            /\ followups' = WithoutFollowUps(tids)
            /\ payments' = Detach(payments, tids)
            /\ radiographs' = Detach(radiographs, tids)
            /\ last' = [ok |-> TRUE, tids |-> tids] @@ inp
            /\ UNCHANGED <<today, requests, patients, users, dentists, visits, rxs, items,
                           files, nfiles>>

\* crash: os.remove or the final commit raises, and the session is rolled
\* back.  removed: the files then already gone from the upload folder (all of
\* them when it is the commit that raises; SQL fixes no order on the rows, so
\* any of them may be left when a removal raises).
delete_visit(role, vid, D) ==
    LET inp == [op |-> "delete_visit", role |-> role, vid |-> vid]
        ts == {t \in treatments : t.visit_id = vid}
        tids == Ids(ts)
        pays == {x \in payments : x.treatment_id \in tids}
        rads == {r \in radiographs : r.treatment_id \in tids}
        rx == {r \in rxs : r.visit_id = vid}
    IN
    IF ~require_role(role, Staff)
    THEN /\ last' = [ok |-> FALSE, err |-> "role"] @@ inp
         /\ UNCHANGED <<today, requests, store>>
    ELSE IF vid \notin Ids(visits)
    THEN /\ last' = [ok |-> FALSE, err |-> "404"] @@ inp
         /\ UNCHANGED <<today, requests, store>>
    ELSE
    \E crash \in D.crash, removed \in SUBSET OnDisk(rads) :
    IF crash
    THEN /\ files' = files \ removed
         /\ last' = [ok |-> FALSE, err |-> "500"] @@ inp
         /\ UNCHANGED <<today, requests, patients, users, dentists, cases, visits, rxs, items,
                        treatments, followups, payments, radiographs, nfiles>>
    ELSE /\ removed = OnDisk(rads)
         /\ files' = files \ removed
         /\ payments' = payments \ pays
         /\ radiographs' = radiographs \ rads
         /\ treatments' = treatments \ ts
         /\ followups' = WithoutFollowUps(tids)
         /\ visits' = {v \in visits : v.id # vid}
         /\ rxs' = rxs \ rx
         /\ items' = {i \in items : i.prescription_id \notin Ids(rx)}
         /\ last' = [ok |-> TRUE,
                     had |-> [treatments |-> tids, payments |-> Ids(pays),
                              radiographs |-> Ids(rads),
                              followups |-> {f.id : f \in followups \ followups'},
                              rxs |-> Ids(rx),
                              items |-> {i.id : i \in items \ items'},
                              files |-> {r.filename : r \in rads}]] @@ inp
         /\ UNCHANGED <<today, requests, patients, users, dentists, cases, nfiles>>

delete_file(role, rid, D) ==
    LET inp == [op |-> "delete_file", role |-> role, rid |-> rid]
        rads == {r \in radiographs : r.id = rid}
    IN
    IF ~require_role(role, Staff)
    THEN /\ last' = [ok |-> FALSE, err |-> "role"] @@ inp
         /\ UNCHANGED <<today, requests, store>>
    ELSE IF rads = {}
    THEN /\ last' = [ok |-> FALSE, err |-> "404"] @@ inp
         /\ UNCHANGED <<today, requests, store>>
    ELSE
    \E crash \in D.crash, removed \in SUBSET OnDisk(rads) :
    IF crash
    THEN /\ files' = files \ removed
         /\ last' = [ok |-> FALSE, err |-> "500"] @@ inp
         /\ UNCHANGED <<today, requests, patients, users, dentists, cases, visits, rxs, items,
                        treatments, followups, payments, radiographs, nfiles>>
    ELSE /\ removed = OnDisk(rads)
         /\ files' = files \ removed
         /\ radiographs' = radiographs \ rads
         /\ last' = [ok |-> TRUE] @@ inp
         /\ UNCHANGED <<today, requests, patients, users, dentists, cases, visits, rxs, items,
                        treatments, followups, payments, nfiles>>

\* Treatments and Payments of the patient go in two bulk DELETEs.  The
\* Patient was loaded with its treatments and their followups (lazy='joined'),
\* and db.session.delete(patient) walks that loaded graph: the FollowUps, the
\* Cases (with the Treatments joined to them) and the Visits (with their
\* prescriptions) are deleted by cascade.
delete_patient(role, pid, D) ==
    LET inp == [op |-> "delete_patient", role |-> role, pid |-> pid]
        own == {t \in treatments : t.patient_id = pid}
        pays == {x \in payments : x.patient_id = pid}
        rads == {r \in radiographs : r.patient_id = pid}
        cs == {c \in cases : c.patient_id = pid}
        vs == {v \in visits : v.patient_id = pid}
        rx == {r \in rxs : r.visit_id \in Ids(vs)}
        joined == (TreatmentsOfCases(cs) \cup {t \in treatments : t.visit_id \in Ids(vs)})
                  \ own
        tids == Ids(own) \cup Ids(joined)
    IN
    IF ~require_role(role, Staff)
    THEN /\ last' = [ok |-> FALSE, err |-> "role"] @@ inp
         /\ UNCHANGED <<today, requests, store>>
    ELSE IF pid \notin Ids(patients)
    THEN /\ last' = [ok |-> FALSE, err |-> "404"] @@ inp
         /\ UNCHANGED <<today, requests, store>>
    ELSE
    \E crash \in D.crash, removed \in SUBSET OnDisk(rads) :
    IF crash
    THEN /\ files' = files \ removed
         /\ last' = [ok |-> FALSE, err |-> "500"] @@ inp
         /\ UNCHANGED <<today, requests, patients, users, dentists, cases, visits, rxs, items,
                        treatments, followups, payments, radiographs, nfiles>>
    ELSE /\ removed = OnDisk(rads)
         /\ files' = files \ removed
         /\ treatments' = (treatments \ own) \ joined
         /\ followups' = WithoutFollowUps(tids)
         /\ payments' = Detach(payments \ pays, Ids(joined))
         /\ radiographs' = Detach(radiographs \ rads, Ids(joined))
         /\ users' = {u \in users : ~(u.username = Row(patients, pid).file_no
                                       /\ u.role = "patient")}
         /\ cases' = cases \ cs
         /\ visits' = visits \ vs
         /\ rxs' = rxs \ rx
         /\ items' = {i \in items : i.prescription_id \notin Ids(rx)}
         /\ patients' = {q \in patients : q.id # pid}
         /\ last' = [ok |-> TRUE,
                     had |-> [treatments |-> Ids(own), payments |-> Ids(pays),
                              radiographs |-> Ids(rads),
                              followups |-> {f.id : f \in followups \ followups'},
                              cases |-> Ids(cs), visits |-> Ids(vs), rxs |-> Ids(rx),
                              items |-> {i.id : i \in items \ items'},
                              files |-> {r.filename : r \in rads},
                              users |-> {u.username : u \in users \ users'}]] @@ inp
         /\ UNCHANGED <<today, requests, dentists, nfiles>>

\* The dentist's Treatments deleted with the Dentist.
TreatmentsCascaded(did) ==
    {t \in treatments : t.dentist_id # did}

\* Dentist.treatments carries no delete cascade: the rows stay and lose their
\* reference.
TreatmentsUnassigned(did) ==
    {IF t.dentist_id = did THEN [t EXCEPT !.dentist_id = Null] ELSE t : t \in treatments}

\* Dentist.visits carries no delete cascade either.
delete_dentist(role, did) ==
    LET inp == [op |-> "delete_dentist", role |-> role, did |-> did]
    IN
    IF ~require_role(role, Staff)
    THEN /\ last' = [ok |-> FALSE, err |-> "role"] @@ inp
         /\ UNCHANGED <<today, requests, store>>
    ELSE IF did \notin Ids(dentists)
    THEN /\ last' = [ok |-> FALSE, err |-> "404"] @@ inp
         /\ UNCHANGED <<today, requests, store>>
    ELSE /\ dentists' = {d \in dentists : d.id # did}
         /\ treatments' = TreatmentsUnassigned(did)
         /\ visits' = {IF v.doctor_id = did THEN [v EXCEPT !.doctor_id = Null]
                        ELSE v : v \in visits}
         /\ last' = [ok |-> TRUE,
                     tids |-> {t.id : t \in {x \in treatments : x.dentist_id = did}},
                     vids |-> {v.id : v \in {x \in visits : x.doctor_id = did}}] @@ inp
         /\ UNCHANGED <<today, requests, patients, users, cases, rxs, items, followups,
                        payments, radiographs, files, nfiles>>

\* ------------------------------------------------------------------ views
\* The balance read off the newest Payment's stored remaining_balance.
TotalsFromSnapshot(pid) ==
    LET own == {x \in payments : x.patient_id = pid}
        total_fee == SumAmount({t \in treatments : t.patient_id = pid})
        total_paid == SumPaid(own)
    IN [total_fee |-> total_fee, total_paid |-> total_paid,
        remaining |-> IF own = {} THEN total_fee
                      ELSE Row(own, MaxOf(Ids(own))).remaining_balance]

\* total_fee, total_paid and remaining as the patient pages compute them
Totals(pid) ==
    LET total_fee == SumAmount({t \in treatments : t.patient_id = pid})
        total_paid == SumPaid({x \in payments : x.patient_id = pid})
    IN [total_fee |-> total_fee, total_paid |-> total_paid,
        remaining |-> total_fee - total_paid]

view_patient(role, pid) ==
    LET inp == [op |-> "view_patient", role |-> role, pid |-> pid]
    IN /\ last' = IF role = "none" THEN [ok |-> FALSE, err |-> "login"] @@ inp
                  ELSE IF pid \notin Ids(patients)
                  THEN [ok |-> FALSE, err |-> "404"] @@ inp
                  ELSE [ok |-> TRUE] @@ Totals(pid) @@ inp
       /\ UNCHANGED <<today, requests, store>>

\* username: the session's user name, a patient's file number.
dashboard_patient(role, username) ==
    LET inp == [op |-> "dashboard_patient", role |-> role, username |-> username]
        found == {q \in patients : q.file_no = username}
    IN /\ last' = IF role # "patient" THEN [ok |-> FALSE, err |-> "role"] @@ inp
                  ELSE IF found = {}
                  THEN [ok |-> FALSE, err |-> "not found"] @@ inp
                  ELSE LET pid == (CHOOSE q \in found : TRUE).id
                       IN [ok |-> TRUE, pid |-> pid] @@ Totals(pid) @@ inp
       /\ UNCHANGED <<today, requests, store>>

\* The visit's balance held at zero when the visit is overpaid.
VisitTotalsClamped(vid) ==
    LET visit_treatments == {t \in treatments : t.visit_id = vid}
        treatment_ids == Ids(visit_treatments)
        visit_payments == {x \in payments : x.treatment_id \in treatment_ids}
        visit_fee == SumAmount(visit_treatments)
        paid_for_visit == SumPaid(visit_payments)
    IN [visit_fee |-> visit_fee, paid_for_visit |-> paid_for_visit,
        remaining_for_visit |-> IF visit_fee > paid_for_visit
                                THEN visit_fee - paid_for_visit ELSE 0]

\* visit_fee, paid_for_visit and remaining_for_visit of the visit invoice
VisitTotals(vid) ==
    LET visit_treatments == {t \in treatments : t.visit_id = vid}
        treatment_ids == Ids(visit_treatments)
        visit_payments == {x \in payments : x.treatment_id \in treatment_ids}
        visit_fee == SumAmount(visit_treatments)
        paid_for_visit == SumPaid(visit_payments)
    IN [visit_fee |-> visit_fee, paid_for_visit |-> paid_for_visit,
        remaining_for_visit |-> visit_fee - paid_for_visit]

print_visit_invoice(role, vid) ==
    LET inp == [op |-> "print_visit_invoice", role |-> role, vid |-> vid]
    IN /\ last' = IF role \notin {"doctor", "assistant", "patient"}
                  THEN [ok |-> FALSE, err |-> "role"] @@ inp
                  ELSE IF vid \notin Ids(visits)
                  THEN [ok |-> FALSE, err |-> "404"] @@ inp
                  ELSE [ok |-> TRUE] @@ VisitTotals(vid) @@ inp
       /\ UNCHANGED <<today, requests, store>>

\* total_paid and remaining of the treatment page
TreatmentTotals(tid) ==
    LET treatment == Row(treatments, tid)
        total_paid == SumPaid({x \in payments : x.treatment_id = tid})
    IN [total_paid |-> total_paid, remaining |-> treatment.amount - total_paid]

\* Case.query.get(treatment.case_id): the Case whose primary key equals the
\* value of the Treatment's case_id column, or None.
CaseOfTreatment(tid) ==
    LET treatment == Row(treatments, tid)
        found == {c \in cases : FkMatches(treatment.case_id, c.id)}
    IN IF found = {} THEN Null ELSE (CHOOSE c \in found : TRUE).id

view_treatment(role, tid) ==
    LET inp == [op |-> "view_treatment", role |-> role, tid |-> tid]
    IN /\ last' = IF role = "none" THEN [ok |-> FALSE, err |-> "login"] @@ inp
                  ELSE IF tid \notin Ids(treatments)
                  THEN [ok |-> FALSE, err |-> "404"] @@ inp
                  ELSE [ok |-> TRUE, case |-> CaseOfTreatment(tid)]
                       @@ TreatmentTotals(tid) @@ inp
       /\ UNCHANGED <<today, requests, store>>

\* Treatment.query.filter_by(case_id=case.id)
view_case(role, cid) ==
    LET inp == [op |-> "view_case", role |-> role, cid |-> cid]
    IN /\ last' = IF cid \notin Ids(cases) THEN [ok |-> FALSE, err |-> "404"] @@ inp
                  ELSE [ok |-> TRUE,
                        tids |-> Ids(TreatmentsOfCases({Row(cases, cid)}))] @@ inp
       /\ UNCHANGED <<today, requests, store>>

\* The page storing the balance it computed on the patient's Payments.
print_patient_storing(role, pid) ==
    /\ last' = [op |-> "print_patient", ok |-> pid \in Ids(patients), role |-> role,
                pid |-> pid]
    /\ payments' = {IF x.patient_id = pid
                    THEN [x EXCEPT !.remaining_balance = Totals(pid).remaining]
                    ELSE x : x \in payments}
    /\ UNCHANGED <<today, requests, patients, users, dentists, cases, visits, rxs,
                   items, treatments, followups, radiographs, files, nfiles>>

print_patient(role, pid) ==
    LET inp == [op |-> "print_patient", role |-> role, pid |-> pid]
    IN /\ last' = IF pid \notin Ids(patients) THEN [ok |-> FALSE, err |-> "404"] @@ inp
                  ELSE [ok |-> TRUE] @@ Totals(pid) @@ inp
       /\ UNCHANGED <<today, requests, store>>

print_payment_summary(role, pid) ==
    LET inp == [op |-> "print_payment_summary", role |-> role, pid |-> pid]
    IN /\ last' = IF pid \notin Ids(patients) THEN [ok |-> FALSE, err |-> "404"] @@ inp
                  ELSE [ok |-> TRUE] @@ Totals(pid) @@ inp
       /\ UNCHANGED <<today, requests, store>>

\* A patient's balance entered into the total without the clamp.
OutstandingSigned(pid) ==
    SumAmount({t \in treatments : t.patient_id = pid})
    - SumPaid({x \in payments : x.patient_id = pid})

\* max(0.0, total_treatments - total_paid) of one patient
Outstanding(pid) ==
    LET total_treatments == SumAmount({t \in treatments : t.patient_id = pid})
        total_paid == SumPaid({x \in payments : x.patient_id = pid})
    IN IF total_treatments - total_paid > 0 THEN total_treatments - total_paid ELSE 0

\* total_outstanding accumulated over "for patient in Patient.query.all()"
RECURSIVE TotalOutstanding(_)
TotalOutstanding(ps) ==
    IF ps = {} THEN 0
    ELSE LET q == CHOOSE x \in ps : TRUE
         IN Outstanding(q.id) + TotalOutstanding(ps \ {q})

dashboard_main(role) ==
    LET inp == [op |-> "dashboard_main", role |-> role]
    IN /\ last' = IF ~require_role(role, Staff) THEN [ok |-> FALSE, err |-> "role"] @@ inp
                  ELSE [ok |-> TRUE, total_revenue |-> SumPaid(payments),
                        total_outstanding |-> TotalOutstanding(patients),
                        total_patients |-> Cardinality(patients)] @@ inp
       /\ UNCHANGED <<today, requests, store>>

\* ------------------------------------------------------------------ canals
\* A tooth code is a sequence of characters.
Digits == <<"0", "1", "2", "3", "4", "5", "6", "7", "8", "9">>

IsDigit(c) == \E i \in 1..Len(Digits) : Digits[i] = c

DigitValue(c) == (CHOOSE i \in 1..Len(Digits) : Digits[i] = c) - 1

RECURSIVE LStrip(_)
LStrip(s) == IF s # <<>> /\ Head(s) = " " THEN LStrip(Tail(s)) ELSE s

RECURSIVE RStrip(_)
RStrip(s) ==
    IF s # <<>> /\ s[Len(s)] = " " THEN RStrip(SubSeq(s, 1, Len(s) - 1)) ELSE s

Unsigned(s) == IF s # <<>> /\ Head(s) \in {"+", "-"} THEN Tail(s) ELSE s

RECURSIVE Magnitude(_)
Magnitude(ds) ==
    IF ds = <<>> THEN 0
    ELSE 10 * Magnitude(SubSeq(ds, 1, Len(ds) - 1)) + DigitValue(ds[Len(ds)])

\* int(num) raises ValueError unless num is, between optional blanks, an
\* optional sign and one or more digits.
int_raises(num) ==
    LET body == Unsigned(RStrip(LStrip(num)))
    IN body = <<>> \/ \E i \in 1..Len(body) : ~IsDigit(body[i])

int(num) ==
    LET text == RStrip(LStrip(num))
        body == Unsigned(text)
    IN IF Head(text) = "-" THEN 0 - Magnitude(body) ELSE Magnitude(body)

\* The second premolar given the two canals of the first.
CanalsPremolarsAlike(tooth_number) ==
    LET num == SubSeq(tooth_number, 3, Len(tooth_number))
    IN IF Len(tooth_number) < 3 \/ int_raises(num) THEN <<"M">>
       ELSE IF int(num) \in {1, 2, 3} THEN <<"C">>
       ELSE IF int(num) \in {4, 5} THEN <<"B", "P">>
       ELSE IF int(num) = 6 THEN <<"MB1", "MB2", "DB", "P">>
       ELSE IF int(num) \in {7, 8} THEN <<"MB", "DB", "P">>
       ELSE <<"M">>

get_canals_for_tooth(tooth_number) ==
    IF tooth_number = <<>> \/ Len(tooth_number) < 3 THEN <<"M">>
    ELSE LET num == SubSeq(tooth_number, 3, Len(tooth_number))
         IN IF num \in {<<"A">>, <<"B">>, <<"C">>, <<"D">>, <<"E">>} THEN <<"M">>
            ELSE IF int_raises(num) THEN <<"M">>
            ELSE LET n == int(num)
                 IN IF n \in {1, 2, 3} THEN <<"C">>
                    ELSE IF n = 4 THEN <<"B", "P">>
                    ELSE IF n = 5 THEN <<"C">>
                    ELSE IF n = 6 THEN <<"MB1", "MB2", "DB", "P">>
                    ELSE IF n = 7 THEN <<"MB", "DB", "P">>
                    ELSE IF n = 8 THEN <<"MB", "DB", "P">>
                    ELSE <<"M">>

\* One call of the function on the code under test.
canal_lookup ==
    /\ last.op = "init"
    /\ last' = [op |-> "get_canals_for_tooth", ok |-> TRUE, role |-> "none",
                tooth_number |-> last.tooth_number,
                canals |-> get_canals_for_tooth(last.tooth_number)]
    /\ UNCHANGED <<today, requests, store>>

\* ------------------------------------------------------------------ system
\* A workload gives the table sizes up to which rows are created and the
\* values the form fields of the requests are drawn from.

\* The ledger: treatments and payments of two patients, created and deleted.
LedgerPatients == 2
LedgerVisits == 2
LedgerTreatments == 2
LedgerPayments == 2
LedgerCases == 1
LedgerFollowUps == 1

Ledger ==
    [patients |-> LedgerPatients, visits |-> LedgerVisits,
     treatments |-> LedgerTreatments, cases |-> LedgerCases,
     payments |-> LedgerPayments, followups |-> LedgerFollowUps,
     files |-> 0, dentists |-> 0, rxs |-> 0, items |-> 0, days |-> 1,
     manual |-> {NoText}, did |-> {Null}, fee |-> {2}, paid |-> {3},
     appt |-> {EmptyAppt}, upload |-> {""},
     notes |-> {TRUE}, fstatus |-> {"Ongoing"}, fappt |-> {1}, flag |-> {FALSE},
     fupload |-> {""}, uploads |-> {<<>>}, names |-> {<<>>}, crash |-> {FALSE}]

LedgerNext ==
    \/ patient_registration("doctor", Ledger)
    \/ \E pid \in 1..LedgerPatients : add_visit("assistant", pid, Ledger)
    \/ \E pid \in 1..LedgerPatients, vid \in 1..LedgerVisits :
           add_treatment("doctor", pid, vid, Ledger)
    \/ \E tid \in 1..LedgerTreatments : add_followup("assistant", tid, Ledger)
    \/ \E tid \in 1..LedgerTreatments : delete_treatment("doctor", tid)
    \/ \E payid \in 1..LedgerPayments : delete_payment("doctor", payid)
    \/ \E cid \in 1..LedgerCases : delete_case("doctor", cid)
    \/ \E vid \in 1..LedgerVisits : delete_visit("assistant", vid, Ledger)
    \/ \E pid \in 1..LedgerPatients : view_patient("doctor", pid)
    \/ \E pid \in 1..LedgerPatients : dashboard_patient("patient", 10000 + pid)

LedgerSpec == Init /\ [][LedgerNext]_vars

\* Case identifiers: two patients whose treatments open cases under
\* generated, selected and typed identifiers, on two days.
CasePatients == 2
CaseVisits == 2
CaseTreatments == 3
CaseCases == 2
CaseDays == 2

CaseIds ==
    [patients |-> CasePatients, visits |-> CaseVisits,
     treatments |-> CaseTreatments, cases |-> CaseCases,
     payments |-> CaseTreatments, followups |-> 0,
     files |-> 0, dentists |-> 0, rxs |-> 0, items |-> 0, days |-> CaseDays,
     manual |-> {NoText, FreeText(1), GenId(1, 1, 1)}, did |-> {Null},
     fee |-> {2}, paid |-> {0}, appt |-> {EmptyAppt}, upload |-> {""},
     notes |-> {TRUE}, fstatus |-> {"Ongoing"}, fappt |-> {1}, flag |-> {FALSE},
     fupload |-> {""}, uploads |-> {<<>>}, names |-> {<<>>}, crash |-> {FALSE}]

CaseNext ==
    \/ NextDay(CaseIds)
    \/ patient_registration("assistant", CaseIds)
    \/ \E pid \in 1..CasePatients : add_visit("doctor", pid, CaseIds)
    \/ \E pid \in 1..CasePatients : add_case("doctor", pid)
    \/ \E pid \in 1..CasePatients, vid \in 0..CaseVisits :
           add_treatment("doctor", pid, vid, CaseIds)
    \/ \E cid \in 1..CaseCases : delete_case("doctor", cid)
    \/ \E pid \in 1..CasePatients : delete_patient("doctor", pid, CaseIds)

CaseSpec == Init /\ [][CaseNext]_vars

\* Deletion: visits with treatments, payments, radiographs, follow-ups and
\* prescriptions, deleted by treatment, by visit and by patient.
CascadePatients == 1
CascadeVisits == 2
CascadeTreatments == 2
CascadeFollowUps == 1
CascadeFiles == 2
CascadeRxs == 1

Cascade ==
    [patients |-> CascadePatients, visits |-> CascadeVisits,
     treatments |-> CascadeTreatments, cases |-> CascadePatients,
     payments |-> CascadeTreatments, followups |-> CascadeFollowUps,
     files |-> CascadeFiles, dentists |-> 0, rxs |-> CascadeRxs,
     items |-> CascadeRxs, days |-> 1,
     manual |-> {NoText}, did |-> {Null}, fee |-> {2}, paid |-> {3},
     appt |-> {EmptyAppt}, upload |-> {"", "png"},
     notes |-> {TRUE}, fstatus |-> {"Ongoing"}, fappt |-> {1}, flag |-> {FALSE},
     fupload |-> {""}, uploads |-> {<<"png">>}, names |-> {<<"a">>},
     crash |-> {FALSE, TRUE}]

CascadeNext ==
    \/ patient_registration("doctor", Cascade)
    \/ \E pid \in 1..CascadePatients : add_visit("doctor", pid, Cascade)
    \/ \E pid \in 1..CascadePatients, vid \in 1..CascadeVisits :
           add_treatment("doctor", pid, vid, Cascade)
    \/ \E tid \in 1..CascadeTreatments : add_followup("doctor", tid, Cascade)
    \/ \E pid \in 1..CascadePatients : upload_file("assistant", pid, Cascade)
    \/ \E vid \in 1..CascadeVisits : visit_prescription("doctor", vid, Cascade)
    \/ \E tid \in 1..CascadeTreatments : delete_treatment("doctor", tid)
    \/ \E vid \in 1..CascadeVisits : delete_visit("doctor", vid, Cascade)
    \/ \E pid \in 1..CascadePatients : delete_patient("doctor", pid, Cascade)

CascadeSpec == Init /\ [][CascadeNext]_vars

\* Follow-ups: treatments opened with and without a next appointment, then
\* followed up and marked complete.
FollowUpTreatments == 2
FollowUpFollowUps == 2
FollowUpPatients == 1

FollowUps ==
    [patients |-> FollowUpPatients, visits |-> FollowUpPatients,
     treatments |-> FollowUpTreatments, cases |-> FollowUpPatients,
     payments |-> FollowUpTreatments, followups |-> FollowUpFollowUps,
     files |-> 0, dentists |-> 0, rxs |-> 0, items |-> 0, days |-> 1,
     manual |-> {NoText}, did |-> {Null}, fee |-> {2}, paid |-> {0},
     appt |-> {NoneAppt, EmptyAppt, 1}, upload |-> {""},
     notes |-> BOOLEAN, fstatus |-> {"Ongoing", "Completed"},
     fappt |-> {EmptyAppt, 2}, flag |-> BOOLEAN,
     fupload |-> {""}, uploads |-> {<<>>}, names |-> {<<>>}, crash |-> {FALSE}]

FollowUpNext ==
    \/ patient_registration("doctor", FollowUps)
    \/ \E pid \in 1..FollowUpPatients : add_visit("doctor", pid, FollowUps)
    \/ \E pid \in 1..FollowUpPatients, vid \in 1..FollowUpPatients :
           add_treatment("doctor", pid, vid, FollowUps)
    \/ \E tid \in 1..FollowUpTreatments : add_followup("doctor", tid, FollowUps)
    \/ \E obj_type \in {"case", "treatment", "followup"},
          obj_id \in 1..FollowUpTreatments :
           mark_complete("assistant", obj_type, obj_id)
    \/ \E fid \in 1..FollowUpFollowUps : delete_followup("doctor", fid)

FollowUpSpec == Init /\ [][FollowUpNext]_vars

\* The dashboard: two patients, one of whom may have paid more than was
\* charged.
DashboardPatients == 2
DashboardVisits == 2
DashboardTreatments == 2

Dashboard ==
    [patients |-> DashboardPatients, visits |-> DashboardVisits,
     treatments |-> DashboardTreatments, cases |-> DashboardPatients,
     payments |-> DashboardTreatments, followups |-> 0,
     files |-> 0, dentists |-> 0, rxs |-> 0, items |-> 0, days |-> 1,
     manual |-> {NoText}, did |-> {Null}, fee |-> {2}, paid |-> {0, 3},
     appt |-> {EmptyAppt}, upload |-> {""},
     notes |-> {TRUE}, fstatus |-> {"Ongoing"}, fappt |-> {1}, flag |-> {FALSE},
     fupload |-> {""}, uploads |-> {<<>>}, names |-> {<<>>}, crash |-> {FALSE}]

DashboardNext ==
    \/ patient_registration("doctor", Dashboard)
    \/ \E pid \in 1..DashboardPatients : add_visit("doctor", pid, Dashboard)
    \/ \E pid \in 1..DashboardPatients, vid \in 1..DashboardVisits :
           add_treatment("doctor", pid, vid, Dashboard)
    \/ \E tid \in 1..DashboardTreatments : delete_treatment("doctor", tid)
    \/ \E payid \in 1..DashboardTreatments : delete_payment("doctor", payid)
    \/ \E pid \in 1..DashboardPatients : view_patient("assistant", pid)
    \/ \E role \in {"assistant", "patient"} : dashboard_main(role)

DashboardSpec == Init /\ [][DashboardNext]_vars

\* Prescriptions: saved and saved again on two visits, with item lists in
\* either order and with an empty drug name among them.
RxVisits == 2
RxPrescriptions == 2
RxItems == 5

Rx ==
    [patients |-> 1, visits |-> RxVisits,
     treatments |-> 0, cases |-> 0, payments |-> 0, followups |-> 0,
     files |-> 0, dentists |-> 0, rxs |-> RxPrescriptions,
     items |-> RxItems, days |-> 1,
     manual |-> {NoText}, did |-> {Null}, fee |-> {2}, paid |-> {0},
     appt |-> {EmptyAppt}, upload |-> {""},
     notes |-> {TRUE}, fstatus |-> {"Ongoing"}, fappt |-> {1}, flag |-> {FALSE},
     fupload |-> {""}, uploads |-> {<<>>},
     names |-> {<<>>, <<"a">>, <<"a", "b">>, <<"b", "a">>, <<"a", "", "b">>},
     crash |-> {FALSE}]

RxNext ==
    \/ patient_registration("doctor", Rx)
    \/ add_visit("doctor", 1, Rx)
    \/ \E role \in {"doctor", "patient"}, vid \in 1..RxVisits :
           visit_prescription(role, vid, Rx)
    \/ \E vid \in 1..RxVisits : delete_visit("assistant", vid, Rx)

RxSpec == Init /\ [][RxNext]_vars

\* Dentists: registered, named on visits and treatments (also by an id that
\* matches no Dentist), and deleted; requests that name rows not in the store.
DentistPatients == 1
DentistDentists == 1
DentistVisits == 2
DentistTreatments == 2

Dentists ==
    [patients |-> DentistPatients, visits |-> DentistVisits,
     treatments |-> DentistTreatments, cases |-> DentistTreatments,
     payments |-> DentistTreatments, followups |-> 0,
     files |-> 0, dentists |-> DentistDentists, rxs |-> DentistVisits,
     items |-> 0, days |-> 1,
     manual |-> {NoText}, did |-> {Null} \cup (1..DentistDentists), fee |-> {2},
     paid |-> {0}, appt |-> {EmptyAppt, 1}, upload |-> {""},
     notes |-> {TRUE}, fstatus |-> {"Ongoing"}, fappt |-> {1}, flag |-> {FALSE},
     fupload |-> {""}, uploads |-> {<<>>}, names |-> {<<>>}, crash |-> {FALSE}]

DentistNext ==
    \/ patient_registration("doctor", Dentists)
    \/ register_dentist("doctor", Dentists)
    \/ \E pid \in 1..DentistPatients : add_visit("doctor", pid, Dentists)
    \/ \E pid \in 1..DentistPatients, vid \in 1..DentistVisits :
           add_treatment("doctor", pid, vid, Dentists)
    \/ \E vid \in 1..DentistVisits : visit_prescription("doctor", vid, Dentists)
    \/ \E tid \in 1..DentistTreatments : delete_treatment("doctor", tid)
    \/ \E did \in 1..DentistDentists : delete_dentist("doctor", did)

DentistSpec == Init /\ [][DentistNext]_vars

\* Canal lookup: every tooth code of up to CanalMaxLen characters over quadrant
\* letters, pediatric letters, digits, a blank and signs.
CanalMaxLen == 4

ToothChars ==
    {"U", "R", "A", "E", "F", " ", "-", "+"} \cup {Digits[i] : i \in 1..Len(Digits)}

ToothCodes == UNION {[1..n -> ToothChars] : n \in 0..CanalMaxLen}

CanalInit ==
    /\ EmptyStore
    /\ last \in {[op |-> "init", ok |-> TRUE, role |-> "none", tooth_number |-> c] :
                  c \in ToothCodes}

CanalNext == canal_lookup

CanalSpec == CanalInit /\ [][CanalNext]_vars

\* Uploads: a file of an allowed and of another extension on each upload path.
UploadVisits == 1
UploadTreatments == 1
UploadFollowUps == 1
UploadFiles == 3

Uploads ==
    [patients |-> 1, visits |-> UploadVisits,
     treatments |-> UploadTreatments, cases |-> UploadTreatments,
     payments |-> UploadTreatments, followups |-> UploadFollowUps,
     files |-> UploadFiles, dentists |-> 0, rxs |-> 0, items |-> 0, days |-> 1,
     manual |-> {NoText}, did |-> {Null}, fee |-> {2}, paid |-> {0},
     appt |-> {EmptyAppt}, upload |-> {"", "png", "exe"},
     notes |-> {TRUE}, fstatus |-> {"Ongoing"}, fappt |-> {1}, flag |-> {FALSE},
     fupload |-> {"", "pdf", "exe"},
     uploads |-> {<<"exe">>, <<"jpg", "exe">>, <<"exe", "jpeg">>},
     names |-> {<<>>}, crash |-> {FALSE}]

UploadNext ==
    \/ patient_registration("doctor", Uploads)
    \/ add_visit("doctor", 1, Uploads)
    \/ \E vid \in 1..UploadVisits : add_treatment("doctor", 1, vid, Uploads)
    \/ \E tid \in 1..UploadTreatments : add_followup("doctor", tid, Uploads)
    \/ upload_file("doctor", 1, Uploads)
    \/ \E fid \in 1..UploadFollowUps : delete_followup("doctor", fid)
    \/ \E tid \in 1..UploadTreatments : delete_treatment("doctor", tid)

UploadSpec == Init /\ [][UploadNext]_vars

\* Race: add_treatment requests for the patients, each served step by step,
\* none with a case id typed or selected.
RaceRequests == 2
RacePatients == 2
RaceVisits == 2
RaceCases == 2

Race ==
    [patients |-> RacePatients, visits |-> RaceVisits,
     treatments |-> RaceRequests, cases |-> RaceCases,
     payments |-> RaceRequests, followups |-> 0,
     files |-> 0, dentists |-> 0, rxs |-> 0, items |-> 0, days |-> 1,
     manual |-> {NoText}, did |-> {Null}, fee |-> {2}, paid |-> {0, 1},
     appt |-> {EmptyAppt}, upload |-> {""},
     notes |-> {TRUE}, fstatus |-> {"Ongoing"}, fappt |-> {1}, flag |-> {FALSE},
     fupload |-> {""}, uploads |-> {<<>>}, names |-> {<<>>}, crash |-> {FALSE}]

RaceNext ==
    \/ patient_registration("doctor", Race)
    \/ \E pid \in 1..RacePatients : add_visit("doctor", pid, Race)
    \/ \E r \in 1..RaceRequests, pid \in 1..RacePatients, vid \in 1..RaceVisits :
           count_cases(r, pid, vid)
    \/ \E r \in 1..RaceRequests : find_case(r)
    \/ \E r \in 1..RaceRequests : commit_case(r)
    \/ \E r \in 1..RaceRequests : commit_treatment(r, Race)

RaceSpec == Init /\ [][RaceNext]_vars

\* Pages: the pages that compute a balance, read between the requests that
\* add and delete treatments and payments of two patients.
PagePatients == 2
PageVisits == 2
PageTreatments == 2

Pages ==
    [patients |-> PagePatients, visits |-> PageVisits,
     treatments |-> PageTreatments, cases |-> PageTreatments,
     payments |-> PageTreatments, followups |-> 0,
     files |-> 0, dentists |-> 0, rxs |-> 0, items |-> 0, days |-> 1,
     manual |-> {NoText}, did |-> {Null}, fee |-> {2}, paid |-> {0, 3},
     appt |-> {EmptyAppt}, upload |-> {""},
     notes |-> {TRUE}, fstatus |-> {"Ongoing"}, fappt |-> {1}, flag |-> {FALSE},
     fupload |-> {""}, uploads |-> {<<>>}, names |-> {<<>>}, crash |-> {FALSE}]

PageNext ==
    \/ patient_registration("doctor", Pages)
    \/ \E pid \in 1..PagePatients : add_visit("doctor", pid, Pages)
    \/ \E pid \in 1..PagePatients, vid \in 1..PageVisits :
           add_treatment("doctor", pid, vid, Pages)
    \/ \E tid \in 1..PageTreatments : delete_treatment("doctor", tid)
    \/ \E payid \in 1..PageTreatments : delete_payment("doctor", payid)
    \/ \E pid \in 1..PagePatients : view_patient("assistant", pid)
    \/ \E pid \in 1..PagePatients : dashboard_patient("patient", 10000 + pid)
    \/ \E tid \in 1..PageTreatments : view_treatment("assistant", tid)
    \/ \E vid \in 1..PageVisits : print_visit_invoice("patient", vid)
    \/ \E pid \in 1..PagePatients : print_patient("none", pid)
    \/ \E pid \in 1..PagePatients : print_payment_summary("none", pid)
    \/ dashboard_main("doctor")

PageSpec == Init /\ [][PageNext]_vars

\* Visit links: treatments added on visits of their own and of another
\* patient, under generated case ids and under a typed number that equals a
\* Case's primary key, then deleted by treatment, case, visit and patient.
LinkPatients == 2
LinkVisits == 2
LinkTreatments == 2
LinkCases == 2

Links ==
    [patients |-> LinkPatients, visits |-> LinkVisits,
     treatments |-> LinkTreatments, cases |-> LinkCases,
     payments |-> LinkTreatments, followups |-> 0,
     files |-> 0, dentists |-> 0, rxs |-> 0, items |-> 0, days |-> 1,
     manual |-> {NoText, NumText(1)}, did |-> {Null}, fee |-> {2}, paid |-> {0},
     appt |-> {EmptyAppt}, upload |-> {""},
     notes |-> {TRUE}, fstatus |-> {"Ongoing"}, fappt |-> {1}, flag |-> {FALSE},
     fupload |-> {""}, uploads |-> {<<>>}, names |-> {<<>>}, crash |-> {FALSE, TRUE}]

LinkNext ==
    \/ patient_registration("doctor", Links)
    \/ \E pid \in 1..LinkPatients : add_visit("doctor", pid, Links)
    \/ \E pid \in 1..LinkPatients, vid \in 0..LinkVisits :
           add_treatment("doctor", pid, vid, Links)
    \/ \E tid \in 1..LinkTreatments : delete_treatment("doctor", tid)
    \/ \E cid \in 1..LinkCases : delete_case("doctor", cid)
    \/ \E vid \in 1..LinkVisits : delete_visit("doctor", vid, Links)
    \/ \E pid \in 1..LinkPatients : delete_patient("doctor", pid, Links)

LinkSpec == Init /\ [][LinkNext]_vars

\* Access: every request that writes, sent by a doctor, by a patient and
\* without a login.
AccessVisits == 1
AccessTreatments == 1
AccessFollowUps == 1
AccessDentists == 1

AccessRoles == {"doctor", "patient", "none"}

Access ==
    [patients |-> 1, visits |-> AccessVisits,
     treatments |-> AccessTreatments, cases |-> AccessTreatments,
     payments |-> AccessTreatments, followups |-> AccessFollowUps,
     files |-> 1, dentists |-> AccessDentists, rxs |-> AccessVisits,
     items |-> 0, days |-> 1,
     manual |-> {NoText}, did |-> {Null}, fee |-> {2}, paid |-> {0},
     appt |-> {1}, upload |-> {""},
     notes |-> {TRUE}, fstatus |-> {"Ongoing"}, fappt |-> {2}, flag |-> {FALSE},
     fupload |-> {""}, uploads |-> {<<"png">>}, names |-> {<<>>}, crash |-> {FALSE}]

AccessNext ==
    \E role \in AccessRoles :
        \/ patient_registration(role, Access)
        \/ register_dentist(role, Access)
        \/ add_visit(role, 1, Access)
        \/ add_case(role, 1)
        \/ \E vid \in 1..AccessVisits : add_treatment(role, 1, vid, Access)
        \/ \E tid \in 1..AccessTreatments : add_followup(role, tid, Access)
        \/ \E obj_id \in 1..AccessTreatments : mark_complete(role, "treatment", obj_id)
        \/ upload_file(role, 1, Access)
        \/ \E vid \in 1..AccessVisits : visit_prescription(role, vid, Access)
        \/ \E fid \in 1..AccessFollowUps : delete_followup(role, fid)
        \/ \E tid \in 1..AccessTreatments : delete_treatment(role, tid)
        \/ \E payid \in 1..AccessTreatments : delete_payment(role, payid)
        \/ \E cid \in 1..AccessTreatments : delete_case(role, cid)
        \/ \E vid \in 1..AccessVisits : delete_visit(role, vid, Access)
        \/ \E rid \in 1..AccessTreatments : delete_file(role, rid, Access)
        \/ \E did \in 1..AccessDentists : delete_dentist(role, did)
        \/ delete_patient(role, 1, Access)

AccessSpec == Init /\ [][AccessNext]_vars

\* ------------------------------------------------------------------ claims
RECURSIVE SumField(_, _)
SumField(rows, field) ==
    IF rows = {} THEN 0
    ELSE LET r == CHOOSE x \in rows : TRUE IN r[field] + SumField(rows \ {r}, field)

\* C1: whenever a patient page (view_patient, dashboard_patient) has just been
\* rendered for patient P, the balance it reports is the sum of amount over
\* the Treatments stored for P minus the sum of amount_paid over the Payments
\* stored for P, whatever remaining_balance the Payment rows carry.
C1_LiveBalance ==
    (last.op \in {"view_patient", "dashboard_patient"} /\ last.ok) =>
        last.remaining =
            SumField({t \in treatments : t.patient_id = last.pid}, "amount")
            - SumField({x \in payments : x.patient_id = last.pid}, "amount_paid")

\* A page rendered for a patient who has a Payment whose Treatment was
\* deleted and whose stored remaining_balance differs from the reported
\* balance, while another patient has a Treatment of their own.
C1_Witness ==
    /\ last.op \in {"view_patient", "dashboard_patient"}
    /\ last.ok
    /\ \E x \in payments : /\ x.patient_id = last.pid
                            /\ x.treatment_id = Null
                            /\ x.remaining_balance # last.remaining
    /\ \E t \in treatments : t.patient_id # last.pid

\* The cases of patient pid that carry an identifier of the current day.
TodaysCases(pid) ==
    {c \in cases : c.patient_id = pid /\ c.case_id[1] = 0 /\ c.case_id[2] = pid
                                      /\ c.case_id[3] = today}

\* C2: for a patient whose cases of the day are CASE-<pid>-<date>-01 .. -0k,
\* a creation without a manual or selected identifier, through add_case or
\* through add_treatment, succeeds and adds the Case CASE-<pid>-<date>-0(k+1).
C2_SequentialCaseIds ==
    [][\A pid \in Ids(patients) :
         LET k == Cardinality(TodaysCases(pid))
             next == GenId(pid, today, k + 1)
         IN (/\ {c.case_id : c \in TodaysCases(pid)}
                    = {GenId(pid, today, n) : n \in 1..k}
             /\ \A c \in cases : c.case_id # next
             /\ last'.op \in {"add_case", "add_treatment"}
             /\ last'.role \in Staff
             /\ last'.pid = pid
             /\ \/ last'.op = "add_case"
                \/ /\ last'.op = "add_treatment"
                   /\ \E v \in visits : v.id = last'.vid /\ v.patient_id = pid
                   /\ last'.manual = NoText
                   /\ last'.selected = NoText)
            => /\ last'.ok
               /\ \E c \in cases' \ cases : c.case_id = next /\ c.patient_id = pid
      ]_vars

\* C3: in every reachable state no two Case rows have the same case_id.
C3_CaseIdUnique ==
    \A c1, c2 \in cases : c1.id # c2.id => c1.case_id # c2.case_id

\* Two patients have cases, and a treatment that would have opened a second
\* Case under an identifier already taken has just been refused.
C3_Witness ==
    /\ last.op = "add_treatment"
    /\ ~last.ok
    /\ last.err = "IntegrityError"
    /\ \E c \in cases : c.patient_id # last.pid /\ c.case_id \in {last.manual, last.selected}
    /\ \E c \in cases : c.patient_id = last.pid

\* C7: an add_treatment request for patient P that supplies no visit id, the
\* id of no stored Visit, or the id of another patient's Visit is rejected
\* and leaves every table and the upload folder as they were.
C7_VisitRequired ==
    [][(/\ last'.op = "add_treatment"
        /\ \/ last'.vid = Null
           \/ last'.vid \notin Ids(visits)
           \/ \E v \in visits : v.id = last'.vid /\ v.patient_id # last'.pid)
       => (~last'.ok /\ UNCHANGED store)
      ]_vars

\* A treatment for one registered patient on another patient's visit has
\* just been rejected.
C7_Witness ==
    /\ last.op = "add_treatment"
    /\ ~last.ok
    /\ last.err = "visit"
    /\ last.pid \in Ids(patients)
    /\ \E v \in visits : v.id = last.vid /\ v.patient_id # last.pid

\* C8: a successful add_treatment for patient P files the Treatment under
\* the identifier c resolved from the manual entry, else the selection, else
\* generation; if P had no Case with case_id c it adds exactly one Case
\* (c, Active, P), and otherwise it leaves the Case rows as they were.
C8_CaseOnDemand ==
    [][(last'.op = "add_treatment" /\ last'.ok) =>
         LET pid == last'.pid
             c == IF last'.manual # NoText THEN last'.manual
                  ELSE IF last'.selected # NoText THEN last'.selected
                  ELSE GenId(pid, today, Cardinality(TodaysCases(pid)) + 1)
             had == \E x \in cases : x.case_id = c /\ x.patient_id = pid
         IN /\ \E t \in treatments' \ treatments : t.id = last'.tid /\ t.case_id = c
            /\ had => cases' = cases
            /\ ~had => \E n \in cases' \ cases :
                           /\ cases' = cases \cup {n}
                           /\ n.case_id = c
                           /\ n.status = "Active"
                           /\ n.patient_id = pid
      ]_vars

\* A treatment has just been filed under a typed identifier of a Case the
\* patient already had, while a different Case was selected.
C8_Witness ==
    /\ last.op = "add_treatment"
    /\ last.ok
    /\ last.manual # NoText
    /\ last.selected # NoText
    /\ last.selected # last.manual
    /\ ~last.created
    /\ \E t \in treatments : t.id = last.tid /\ t.case_id = last.manual

\* None of the rows is stored after the step.
Gone(rows, after) == \A r \in rows : r.id \notin Ids(after)

\* C4: after a successful delete_visit(V) the Treatments of V, their
\* FollowUps, Payments and Radiographs, and V's prescription with its items
\* are no longer stored, no stored row refers to V or to one of those
\* Treatments, and the file of each of those Radiographs is off the disk.
C4_VisitCascade ==
    [][(last'.op = "delete_visit" /\ last'.ok) =>
         LET vid == last'.vid
             ts == {t \in treatments : t.visit_id = vid}
             tids == Ids(ts)
             rads == {r \in radiographs : r.treatment_id \in tids}
             rx == {r \in rxs : r.visit_id = vid}
         IN /\ vid \notin Ids(visits')
            /\ Gone(ts, treatments')
            /\ Gone({f \in followups : f.treatment_id \in tids}, followups')
            /\ Gone({x \in payments : x.treatment_id \in tids}, payments')
            /\ Gone(rads, radiographs')
            /\ Gone(rx, rxs')
            /\ Gone({i \in items : i.prescription_id \in Ids(rx)}, items')
            /\ \A t \in treatments' : t.visit_id # vid
            /\ \A f \in followups' : f.treatment_id \notin tids
            /\ \A x \in payments' : x.treatment_id \notin tids
            /\ \A r \in radiographs' : r.treatment_id \notin tids
            /\ \A r \in rxs' : r.visit_id # vid
            /\ \A r \in rads : \A f \in files' : f.name # r.filename
      ]_vars

\* A visit with two treatments, each with its payment, and with radiographs,
\* a follow-up and a prescription with an item, has just been deleted.
C4_Witness ==
    /\ last.op = "delete_visit"
    /\ last.ok
    /\ Cardinality(last.had.treatments) = 2
    /\ Cardinality(last.had.payments) = 2
    /\ last.had.radiographs # {}
    /\ last.had.files # {}
    /\ last.had.followups # {}
    /\ last.had.rxs # {}
    /\ last.had.items # {}

\* C5: after a successful delete_patient(P) no Case, Visit, Treatment,
\* FollowUp, Payment, Radiograph, prescription or prescription item that P
\* owned, directly or through a visit or a treatment, is stored any more,
\* the files of P's Radiographs are off the disk, and the User whose
\* username is P's file_no is gone.
C5_PatientCascade ==
    [][(last'.op = "delete_patient" /\ last'.ok) =>
         LET pid == last'.pid
             ts == {t \in treatments : t.patient_id = pid}
             vs == {v \in visits : v.patient_id = pid}
             tids == Ids(ts) \cup {t.id : t \in {u \in treatments : u.visit_id \in Ids(vs)}}
             rads == {r \in radiographs : r.patient_id = pid \/ r.treatment_id \in tids}
             rx == {r \in rxs : r.visit_id \in Ids(vs)}
         IN /\ pid \notin Ids(patients')
            /\ Gone({c \in cases : c.patient_id = pid}, cases')
            /\ Gone(vs, visits')
            /\ Gone({t \in treatments : t.id \in tids}, treatments')
            /\ Gone({f \in followups : f.treatment_id \in tids}, followups')
            /\ Gone({x \in payments : x.patient_id = pid \/ x.treatment_id \in tids},
                    payments')
            /\ Gone(rads, radiographs')
            /\ Gone(rx, rxs')
            /\ Gone({i \in items : i.prescription_id \in Ids(rx)}, items')
            /\ \A r \in rads : \A f \in files' : f.name # r.filename
            /\ \A q \in patients : q.id = pid =>
                   \A u \in users' : u.username # q.file_no
      ]_vars

\* A patient with a case, a visit, a treatment with its payment, radiograph
\* and follow-up, a prescription with an item and a login has just been
\* deleted.
C5_Witness ==
    /\ last.op = "delete_patient"
    /\ last.ok
    /\ last.had.cases # {}
    /\ last.had.visits # {}
    /\ last.had.treatments # {}
    /\ last.had.followups # {}
    /\ last.had.payments # {}
    /\ last.had.radiographs # {}
    /\ last.had.files # {}
    /\ last.had.rxs # {}
    /\ last.had.items # {}
    /\ last.had.users # {}

\* C6: after a successful delete_treatment(T) the FollowUps, the Payments
\* and the Radiographs that were recorded for T are no longer stored, and
\* the files of those Radiographs are off the disk.
C6_TreatmentCascade ==
    [][(last'.op = "delete_treatment" /\ last'.ok) =>
         LET tid == last'.tid
             rads == {r \in radiographs : r.treatment_id = tid}
         IN /\ tid \notin Ids(treatments')
            /\ Gone({f \in followups : f.treatment_id = tid}, followups')
            /\ Gone({x \in payments : x.treatment_id = tid}, payments')
            /\ Gone(rads, radiographs')
            /\ \A r \in rads : \A f \in files' : f.name # r.filename
      ]_vars

\* C9: an add_followup request on Treatment T that does not carry the
\* mark-complete flag: when it stores a FollowUp of status Ongoing with a
\* non-empty next_appointment d, T.next_appointment becomes d and T.status
\* stays; in every other case T.status and T.next_appointment stay.
C9_DatePropagates ==
    [][(/\ last'.op = "add_followup"
        /\ last'.tid \in Ids(treatments)
        /\ ~last'.flag) =>
         LET before == CHOOSE t \in treatments : t.id = last'.tid
             after == CHOOSE t \in treatments' : t.id = last'.tid
         IN /\ last'.tid \in Ids(treatments')
            /\ after.status = before.status
            /\ after.next_appointment =
                   IF last'.ok /\ last'.status = "Ongoing" /\ last'.appt # EmptyAppt
                   THEN last'.appt
                   ELSE before.next_appointment
      ]_vars

\* A FollowUp of status Ongoing with a next appointment has just been added,
\* without the flag, to a Completed Treatment that had another date.
C9_Witness ==
    /\ last.op = "add_followup"
    /\ last.ok
    /\ ~last.flag
    /\ last.status = "Ongoing"
    /\ last.appt # EmptyAppt
    /\ \E t \in treatments : /\ t.id = last.tid
                              /\ t.status = "Completed"
                              /\ t.next_appointment = last.appt
    /\ \E f \in followups : f.id = last.fid /\ f.treatment_id = last.tid

\* C10: an add_followup request on Treatment T that carries the
\* mark-complete flag and stores its FollowUp leaves T with status Completed
\* and no next_appointment, whatever T was and whatever the FollowUp says.
C10_FlagCompletes ==
    [][(/\ last'.op = "add_followup"
        /\ last'.ok
        /\ last'.flag) =>
         \E t \in treatments' : /\ t.id = last'.tid
                                 /\ t.status = "Completed"
                                 /\ t.next_appointment = NoneAppt
      ]_vars

\* A flagged FollowUp of status Ongoing with a next appointment has just
\* been added to a Treatment and the Treatment is Completed without a date.
C10_Witness ==
    /\ last.op = "add_followup"
    /\ last.ok
    /\ last.flag
    /\ last.status = "Ongoing"
    /\ last.appt # EmptyAppt
    /\ \E t \in treatments : /\ t.id = last.tid
                              /\ t.status = "Completed"
                              /\ t.next_appointment = NoneAppt

\* The signed balance of a patient, from the stored rows.
LiveBalance(pid) ==
    SumField({t \in treatments : t.patient_id = pid}, "amount")
    - SumField({x \in payments : x.patient_id = pid}, "amount_paid")

RECURSIVE SumClamped(_)
SumClamped(pids) ==
    IF pids = {} THEN 0
    ELSE LET q == CHOOSE x \in pids : TRUE
             b == LiveBalance(q)
         IN (IF b > 0 THEN b ELSE 0) + SumClamped(pids \ {q})

\* C11: the total outstanding the staff dashboard has just shown is the sum
\* over the stored patients of max(0, live balance), and the balance a
\* patient's own page has just shown is the signed live balance.
C11_OutstandingClamped ==
    /\ (last.op = "dashboard_main" /\ last.ok) =>
           last.total_outstanding = SumClamped(Ids(patients))
    /\ (last.op = "view_patient" /\ last.ok) =>
           last.remaining = LiveBalance(last.pid)

\* The dashboard has just shown the balance of the one patient who owes,
\* while the other patient is in credit.
C11_Witness ==
    /\ last.op = "dashboard_main"
    /\ last.ok
    /\ \E a, b \in Ids(patients) :
          /\ LiveBalance(a) < 0
          /\ LiveBalance(b) > 0
          /\ last.total_outstanding = LiveBalance(b)

\* C12: the Treatment a successful add_treatment stores has status Ongoing
\* if a non-empty next_appointment was submitted and Completed if the field
\* was absent or empty.
C12_InitialStatus ==
    [][(last'.op = "add_treatment" /\ last'.ok) =>
         \E t \in treatments' \ treatments :
            /\ t.id = last'.tid
            /\ t.status = IF last'.appt = NoneAppt \/ last'.appt = EmptyAppt
                          THEN "Completed" ELSE "Ongoing"
      ]_vars

\* A treatment has just been stored Ongoing with its next appointment, next
\* to one stored Completed without any.
C12_Witness ==
    /\ last.op = "add_treatment"
    /\ last.ok
    /\ last.appt = 1
    /\ \E t \in treatments : t.id = last.tid /\ t.status = "Ongoing"
    /\ \E t \in treatments : /\ t.id # last.tid
                              /\ t.status = "Completed"
                              /\ t.next_appointment = EmptyAppt

\* C13: a Case enters the store Active; a stored Case changes status only
\* in a successful mark_complete of that case, which makes it Completed; a
\* Completed Case stays Completed as long as it is stored.
C13_CaseLifecycle ==
    [][/\ \A n \in cases' : n.id \notin Ids(cases) => n.status = "Active"
       /\ \A c \in cases : \A n \in cases' :
             n.id = c.id =>
               \/ n.status = c.status
               \/ /\ c.status # "Completed"
                  /\ n.status = "Completed"
                  /\ last'.op = "mark_complete"
                  /\ last'.ok
                  /\ last'.obj_type = "case"
                  /\ last'.obj_id = c.id
      ]_vars

\* A Completed Case has just had mark_complete applied again, after a
\* treatment with a follow-up was filed under it.
C13_Witness ==
    /\ last.op = "mark_complete"
    /\ last.ok
    /\ last.obj_type = "case"
    /\ \E c \in cases : /\ c.id = last.obj_id
                         /\ c.status = "Completed"
                         /\ \E t \in treatments : /\ t.case_id = c.case_id
                                                   /\ t.status = "Ongoing"
    /\ followups # {}

\* The drug names of the items of a prescription, in the order of their ids.
RECURSIVE StoredNames(_)
StoredNames(its) ==
    IF its = {} THEN <<>>
    ELSE LET first == CHOOSE i \in its : \A j \in its : i.id <= j.id
         IN <<first.drug_name>> \o StoredNames(its \ {first})

ItemsOfVisit(vid, prescriptions, its) ==
    {i \in its : \E r \in prescriptions : r.visit_id = vid /\ r.id = i.prescription_id}

C15_EmptyNameAborts ==
    [][(/\ last'.op = "visit_prescription"
        /\ last'.role \in Staff
        /\ last'.vid \in Ids(visits)
        /\ \E k \in 1..Len(last'.names) : last'.names[k] = "") =>
         /\ ~last'.ok
         /\ rxs' = rxs
         /\ items' = items
      ]_vars

\* C16: a request that names a patient, visit, treatment or dentist that is not
\* in the store fails and leaves every table and the upload folder as they
\* were; this covers add_visit and add_treatment given a dentist id that
\* matches no Dentist, and visit_prescription given an unknown visit id.
C16_NotFoundAborts ==
    [][LET r == last'
           NoDentist == r.did # Null /\ r.did \notin Ids(dentists)
       IN (\/ /\ r.op = "add_treatment"
               /\ \/ r.pid \notin Ids(patients)
                  \/ r.vid \notin Ids(visits)
                  \/ r.ok
                  \/ r.err \in {"IntegrityError", "AttributeError"}
               /\ \/ r.pid \notin Ids(patients)
                  \/ r.vid \notin Ids(visits)
                  \/ NoDentist
           \/ /\ r.op = "add_visit"
               /\ r.ok
               /\ NoDentist
           \/ /\ r.op = "visit_prescription"
               /\ r.vid \notin Ids(visits)
           \/ /\ r.op = "delete_treatment"
               /\ r.tid \notin Ids(treatments)
           \/ /\ r.op = "delete_dentist"
               /\ r.did \notin Ids(dentists))
          => ~r.ok /\ UNCHANGED store]_vars

\* C19: a delete_dentist that succeeds removes that Dentist row and nothing
\* else: every Treatment and every Visit is still there, those of the deleted
\* dentist included, with the same amount, status, next appointment and
\* patient, visit and case links; all other tables and the files are untouched.
C19_DentistOnly ==
    [][(last'.op = "delete_dentist" /\ last'.ok) =>
          /\ dentists' = {d \in dentists : d.id # last'.did}
          /\ {[t EXCEPT !.dentist_id = Null] : t \in treatments'}
               = {[t EXCEPT !.dentist_id = Null] : t \in treatments}
          /\ {[v EXCEPT !.doctor_id = Null] : v \in visits'}
               = {[v EXCEPT !.doctor_id = Null] : v \in visits}
          /\ Cardinality(treatments') = Cardinality(treatments)
          /\ Cardinality(visits') = Cardinality(visits)
          /\ UNCHANGED <<patients, users, cases, rxs, items, followups, payments,
                         radiographs, files, nfiles>>]_vars

\* A dentist who had a Treatment and a Visit has just been deleted.
C19_Witness ==
    /\ last.op = "delete_dentist"
    /\ last.ok
    /\ dentists = {}
    /\ \E t \in treatments :
          t.id \in last.tids /\ t.dentist_id = Null /\ t.next_appointment = 1
    /\ \E v \in visits : v.id \in last.vids /\ v.doctor_id = Null

\* The characters of a code from position 3 on.
Suffix(code) == SubSeq(code, 3, Len(code))

\* C17: for every tooth code the function returns the reference table's
\* result: ["M"] for an empty or shorter-than-3 code, for a suffix in A..E,
\* for a suffix that is not an integer and for an integer outside 1..8; ["C"]
\* for 1, 2, 3 and 5; ["B","P"] for 4; ["MB1","MB2","DB","P"] for 6;
\* ["MB","DB","P"] for 7 and 8; the result is never empty and the call leaves
\* the store as it was.
C17_CanalTable ==
    [][last'.op = "get_canals_for_tooth" =>
          LET code == last'.tooth_number
              got == last'.canals
              IsInt == ~int_raises(Suffix(code))
              n == int(Suffix(code))
          IN /\ code = last.tooth_number
             /\ got # <<>>
             /\ UNCHANGED store
             /\ Len(code) < 3 => got = <<"M">>
             /\ (Len(code) >= 3 /\ ~IsInt) => got = <<"M">>
             /\ (Len(code) >= 3 /\ IsInt /\ n \notin 1..8) => got = <<"M">>
             /\ (Len(code) >= 3 /\ IsInt /\ n \in {1, 2, 3, 5}) => got = <<"C">>
             /\ (Len(code) >= 3 /\ IsInt /\ n = 4) => got = <<"B", "P">>
             /\ (Len(code) >= 3 /\ IsInt /\ n = 6)
                    => got = <<"MB1", "MB2", "DB", "P">>
             /\ (Len(code) >= 3 /\ IsInt /\ n \in {7, 8})
                    => got = <<"MB", "DB", "P">>]_vars

\* The second premolar of a quadrant has been looked up.
C17_Witness ==
    /\ last.op = "get_canals_for_tooth"
    /\ last.tooth_number = <<"U", "R", "5">>
    /\ last.canals = <<"C">>

\* C18: on every upload path (add_visit, add_treatment, upload_file,
\* add_followup) a file is in the upload folder or named on a row only if its
\* extension is one of png, jpg, jpeg, pdf.
C18_AllowedOnly ==
    /\ \A f \in files : f.ext \in ALLOWED_EXTENSIONS
    /\ \A f \in followups : f.attachment = "" \/ f.attachment \in ALLOWED_EXTENSIONS

\* C20: the remaining_balance stored on the Payment an add_treatment creates
\* is the patient's live balance once that Payment exists: the patient's
\* treatment fees, the new Treatment's included, minus the patient's amounts
\* paid, this Payment's amount_paid included.
C20_SnapshotAtCreation ==
    [][(last'.op = "add_treatment" /\ last'.ok) =>
          \A x \in payments' \ payments :
             x.remaining_balance
               = SumAmount({t \in treatments' : t.patient_id = last'.pid})
                 - SumPaid({y \in payments' : y.patient_id = last'.pid})]_vars

\* C21: two add_treatment requests for the same patient on the same day,
\* neither with a case id, generate different ids when one has finished
\* before the other counts; served concurrently, both can count the same
\* number of cases and generate the same id.
C21_SequentialDiffer ==
    \A a \in requests : \A b \in requests :
        (a.r # b.r /\ a.pid = b.pid /\ a.day = b.day /\ a.case_id = b.case_id)
            => (a.r \notin b.after /\ b.r \notin a.after)

\* Two requests of one patient and day hold the same generated id: one has
\* committed its Case and Treatment, the other's commit of a second Case with
\* that id was refused.
C21_Witness ==
    \E a \in requests : \E b \in requests :
        /\ a.r # b.r
        /\ a.pid = b.pid /\ a.day = b.day
        /\ a.case_id = b.case_id
        /\ a.pc = "done"
        /\ b.pc = "failed"

\* The operations that compute a balance for a page.
BalancePages ==
    {"view_patient", "dashboard_patient", "view_treatment", "print_visit_invoice",
     "print_patient", "print_payment_summary", "dashboard_main"}

\* C22: a request for a page that computes a balance (view_patient,
\* dashboard_patient, view_treatment, print_visit_invoice, print_patient,
\* print_payment_summary, dashboard_main) leaves every Patient, Case, Visit,
\* Treatment, FollowUp, Payment and Radiograph row as it was.
C22_PagesReadOnly ==
    [][last'.op \in BalancePages =>
          UNCHANGED <<patients, cases, visits, treatments, followups, payments,
                      radiographs>>]_vars

\* print_patient has shown a balance that differs from the remaining_balance
\* stored on one of the patient's Payments.
C22_Witness ==
    /\ last.op = "print_patient"
    /\ last.ok
    /\ \E x \in payments :
          x.patient_id = last.pid /\ x.remaining_balance # last.remaining

\* C23: the visit invoice's balance is the sum of amount over the Treatments
\* of the visit minus the sum of amount_paid over the Payments whose
\* treatment_id is one of those Treatments; the treatment page's balance is
\* the Treatment's amount minus the sum of amount_paid over the Payments
\* whose treatment_id is that Treatment; both can be negative.
C23_ScopedBalances ==
    [][/\ (last'.op = "print_visit_invoice" /\ last'.ok) =>
             LET ts == {t \in treatments : t.visit_id = last'.vid}
                 ps == {x \in payments : \E t \in ts : x.treatment_id = t.id}
             IN last'.remaining_for_visit
                  = SumField(ts, "amount") - SumField(ps, "amount_paid")
       /\ (last'.op = "view_treatment" /\ last'.ok) =>
             LET ps == {x \in payments : x.treatment_id = last'.tid}
             IN \E t \in treatments :
                   /\ t.id = last'.tid
                   /\ last'.remaining = t.amount - SumField(ps, "amount_paid")]_vars

\* The invoice of an overpaid visit has been printed.
C23_Witness ==
    /\ last.op = "print_visit_invoice"
    /\ last.ok
    /\ last.remaining_for_visit < 0

RECURSIVE SumVisitBalances(_)
SumVisitBalances(vs) ==
    IF vs = {} THEN 0
    ELSE LET v == CHOOSE x \in vs : TRUE
         IN VisitTotals(v.id).remaining_for_visit + SumVisitBalances(vs \ {v})

\* C28: for every patient the patient-level balance (fees minus amounts paid
\* over the patient's Treatments and Payments) equals the sum of the visit
\* invoice balances over the patient's visits, also after treatments and
\* payments have been deleted.
C28_VisitsAddUp ==
    \A q \in patients :
        Totals(q.id).remaining = SumVisitBalances({v \in visits : v.patient_id = q.id})

\* C24: after a successful add_treatment the new Treatment's case foreign key
\* identifies the Case created or reused for it: the lookup of the Case by
\* the Treatment's case_id returns that Case, and the Treatments listed by
\* that Case's primary key include the new Treatment.
C24_CaseLinkResolves ==
    (last.op = "add_treatment" /\ last.ok) =>
        \E c \in cases :
            /\ c.case_id = last.case_id
            /\ c.patient_id = last.pid
            /\ CaseOfTreatment(last.tid) = c.id
            /\ last.tid \in Ids(TreatmentsOfCases({c}))

\* C26: in every reachable state, also after a delete_visit, delete_patient
\* or delete_file that failed part-way, every Radiograph row names a file
\* that is in the upload folder.
C26_NoDanglingFile ==
    \A r \in radiographs : \E f \in files : f.name = r.filename

\* C25: in every reachable state every Treatment has the visit_id of a stored
\* Visit whose patient is the Treatment's own patient, whatever sequence of
\* add_treatment, delete_visit, delete_case, delete_treatment and
\* delete_patient has run.
C25_TreatmentHasVisit ==
    \A t \in treatments :
        \E v \in visits : v.id = t.visit_id /\ v.patient_id = t.patient_id

\* A visit has been deleted with its treatments while a treatment of another
\* visit is stored.
C25_Witness ==
    /\ last.op = "delete_visit"
    /\ last.ok
    /\ last.had.treatments # {}
    /\ treatments # {}

\* C27: no operation changes a field of a stored Payment: a Payment that is
\* still stored after a request has the patient, treatment and case links,
\* the treatment_fee, the amount_paid and the remaining_balance it had before.
C27_PaymentImmutable ==
    [][\A x \in payments : \A y \in payments' : y.id = x.id => y = x]_vars

\* C29: in every reachable state a Treatment whose status is Completed has
\* an empty next_appointment (None or the empty string), after any sequence
\* of add_treatment, add_followup and mark_complete.
C29_CompletedNotDue ==
    \A t \in treatments :
        t.status = "Completed" => t.next_appointment \in {NoneAppt, EmptyAppt}

\* C30: a request that creates, modifies or deletes rows (add_followup and
\* register_dentist included), sent by a session whose role is neither doctor
\* nor assistant, leaves every table and the upload folder unchanged.
C30_StaffOnly ==
    [][last'.role \notin Staff => UNCHANGED store]_vars

====
